---- MODULE Spec2Model ----
(***************************************************************************)
(* Token lifecycle of the Lightroom worker (src/src/handlers/oauth.ts) and *)
(* the resource handler that consumes it (src/src/handlers/lightroom.ts).  *)
(* Each request is a task that is suspended at every await; the KV store   *)
(* of the OAuth tokens is the only shared state.  One step of a request is *)
(* the code between two awaits.                                            *)
(***************************************************************************)
EXTENDS Integers, Sequences, FiniteSets

\* ------------------------------------------------------------------ bounds
NumReq == 2
MaxTicks == 1
MaxSizes == 3

Req == 1..NumReq

\* Wall-clock granularity of the model: Date.now() advances in steps of
\* half the refresh buffer, so that "exactly 5 minutes left" is reached.
TickMs == (5 * 60 * 1000) \div 2

\* expires_in values (seconds) a token response may carry: one that is
\* inside the 5 minute buffer as soon as it is stored, one outside of it.
ExpiresInChoices == {150, 450}

\* expires_at values (ms) of a record left in the store by an earlier
\* exchange.
InitExpiries == {TickMs, 3 * TickMs}

\* ------------------------------------------------------- strings, numbers
\* Number.prototype.toString: the decimal digits of a non-negative integer.
RECURSIVE NumToString(_)
NumToString(n) ==
  IF n < 10 THEN <<n>> ELSE Append(NumToString(n \div 10), n % 10)

\* parseInt of a string of decimal digits; parseInt(null) is NaN, which is
\* represented by -1 and handled by the caller (every comparison is false).
RECURSIVE ParseDigits(_, _)
ParseDigits(s, acc) ==
  IF s = <<>> THEN acc ELSE ParseDigits(Tail(s), acc * 10 + Head(s))

NaN == 0 - 1

ParseInt(s) == IF s = <<>> THEN NaN ELSE ParseDigits(s, 0)

\* ------------------------------------------------------------- the store
\* A value of the KV namespace: the string stored (val; <<>> stands for the
\* null that get() returns for a missing key) and, as history, the token
\* response it was taken from (src; 0 is the exchange that ran before the
\* model starts, r > 0 the token call made by request r).
Keys == {"access_token", "refresh_token", "token_expires_at"}

Null == [src |-> 0 - 1, val |-> <<>>]

\* JavaScript truthiness of a string-or-null: null and "" are falsy.
Truthy(v) == v.val # <<>>

EmptyStore == [k \in Keys |-> Null]

\* storage.put(key, value)
Put(s, k, v) == [s EXCEPT ![k] = v]

\* storage.delete(key).  (LegacyKeyDelete: the delete goes to the key of the
\* earlier single-value layout, 'adobe_tokens', and removes none of the
\* three keys.)
LegacyKeyDelete(s, k) == s

Delete(s, k) == [s EXCEPT ![k] = Null]

\* The access / refresh token strings of token response id.
TokenString(id) == [src |-> id, val |-> <<id>>]

\* (Date.now() + tokens.expires_in * 1000).toString()
ExpiresAt(id, t, expiresIn) ==
  [src |-> id, val |-> NumToString(t + expiresIn * 1000)]

StoredRecord(id, at) ==
  [k \in Keys |->
     IF k = "token_expires_at" THEN [src |-> id, val |-> NumToString(at)]
     ELSE TokenString(id)]

\* ------------------------------------------------- decisions of the code
\* getAccessToken: if (!accessToken || !expiresAt || !refreshToken)
\* (OnlyAccessChecked: only the access token is looked at.)
OnlyAccessChecked(a, e, rf) == ~Truthy(a)

MissingTokenInfo(a, e, rf) == ~Truthy(a) \/ ~Truthy(e) \/ ~Truthy(rf)

\* getAccessToken: if (Date.now() > parseInt(expiresAt) - 5 * 60 * 1000)
\* (NeedsRefreshNoBuffer: no buffer, only an expired token is refreshed;
\* NeedsRefreshWideBuffer: a buffer of 10 minutes.)
NeedsRefreshNoBuffer(t, e) ==
  /\ ParseInt(e.val) # NaN
  /\ t > ParseInt(e.val)

NeedsRefreshWideBuffer(t, e) ==
  /\ ParseInt(e.val) # NaN
  /\ t > ParseInt(e.val) - 10 * 60 * 1000

NeedsRefresh(t, e) ==
  /\ ParseInt(e.val) # NaN
  /\ t > ParseInt(e.val) - 5 * 60 * 1000

\* What the fetch of the token endpoint can come to.
FetchOutcomes == {"ok", "http_error", "network_error", "bad_body"}

\* getAccessToken after the refresh fetch: "store" the new tokens, return
\* "null", or "throw" to the caller.  !response.ok returns null; a rejected
\* fetch and a rejected response.json() land in the catch, which returns
\* null as well.  (RefreshOutcomeUncaught: getAccessToken without its
\* try/catch.)
RefreshOutcomeUncaught(o) ==
  IF o = "ok" THEN "store"
  ELSE IF o = "http_error" THEN "null"
  ELSE "throw"

\* (RefreshOutcomeStored: what the endpoint answered is stored whatever
\* it is.)
RefreshOutcomeStored(o) == "store"

RefreshOutcome(o) == IF o = "ok" THEN "store" ELSE "null"

\* handleOAuthCallback before the exchange: 400 on a provider error, 400 on
\* a missing code, otherwise go on to the exchange (0).
\* (CallbackValidationNoCode, CallbackValidationNoError: one of the two
\* checks is left out.)
CallbackValidationNoCode(code, error) == IF error THEN 400 ELSE 0

CallbackValidationNoError(code, error) == IF ~code THEN 400 ELSE 0

CallbackValidation(code, error) ==
  IF error THEN 400
  ELSE IF ~code THEN 400
  ELSE 0

\* The text of the body of the token endpoint's answer to the call of
\* request r, and the body of a response that carries no text.
ErrorText(r) == <<"token endpoint error", r>>

NoBody == [prefix |-> "", text |-> <<>>]

\* handleOAuthCallback when the exchange did not give tokens: a non-2xx
\* answer is read as text and returned in a 500; a rejected fetch or
\* response.json() lands in the catch, which answers 500 with the message of
\* the exception.  (ExchangeFailedGeneric: the non-2xx answer is thrown to
\* the catch, and its text is lost.)
ExchangeFailedGeneric(o, errorText) ==
  [status |-> 500,
   body |-> [prefix |-> "Internal Server Error: ", text |-> <<o>>]]

ExchangeFailed(o, errorText) ==
  IF o = "http_error"
    THEN [status |-> 500,
          body |-> [prefix |-> "Failed to exchange code for token: ",
                    text |-> errorText]]
  ELSE [status |-> 500,
        body |-> [prefix |-> "Internal Server Error: ", text |-> <<o>>]]

\* handleLightroomRequest after getAccessToken: 401 without a token, 500
\* when getAccessToken threw (the handler's catch), otherwise go on (0).
\* (TokenGateOpen: the check of the token is left out.)
TokenGateOpen(tok, threw) == IF threw THEN 500 ELSE 0

TokenGate(tok, threw) ==
  IF threw THEN 500
  ELSE IF ~Truthy(tok) THEN 401
  ELSE 0

\* ------------------------------------------ getAssetPreview: its decisions
\* The rendition sizes a request may name.
Sizes == {"thumbnail2x", "2048", "2560", "fullsize"}

\* isGeneratedSize: the sizes that have to be generated before they can be
\* fetched.  (NoDirectSize: every size is taken through the generation loop.)
NoDirectSize(size) == TRUE

IsGeneratedSize(size) == size = "fullsize" \/ size = "2560"

\* const baseWaitTime = requestedSize === 'fullsize' ? 10000 : 5000
BaseWaitTime(size) == IF size = "fullsize" THEN 10000 ELSE 5000

\* const maxRetries = 8
MaxRetries == 8

RECURSIVE Pow(_, _)
Pow(b, n) == IF n = 0 THEN 1 ELSE b * Pow(b, n - 1)

\* Math.random() * 0.2, in thousandths: the jitter of one wait.
JitterChoices == {0, 100, 199}

\* baseWaitTime * Math.pow(1.5, attempt) * (1 + Math.random() * 0.2), in
\* units of 1 / 2^(maxRetries - 1) ms, in which 1.5^attempt is a whole number
\* for every attempt of the loop: 1.5^attempt = 3^attempt / 2^attempt.
\* (WaitTimeFlat: the wait does not grow with the attempt.)
WaitTimeFlat(baseWaitTime, attempt, jitter) ==
  (baseWaitTime \div 1000) * Pow(2, MaxRetries - 1) * (1000 + jitter)

WaitTime(baseWaitTime, attempt, jitter) ==
  (baseWaitTime \div 1000) * Pow(3, attempt) * Pow(2, MaxRetries - 1 - attempt)
    * (1000 + jitter)

\* What the upstream API can answer to the GET of a rendition and to the
\* POST that asks for its generation: a 2xx, a 404, another status, or no
\* answer at all (the fetch rejects).
FetchAnswers == {"ok", "not_found", "error", "rejected"}

\* What it can answer to the GET of the rendition's status: a 2xx with a
\* body that says complete / ready, a 2xx with a body that does not, a 404,
\* another status, or no answer.
StatusAnswers == {"ready", "not_ready", "not_found", "error", "rejected"}

\* checkRenditionStatus: false on 404, false on another non-2xx status,
\* otherwise what the body says; a rejected fetch is thrown to the caller.
CheckRenditionStatus(a) ==
  IF a = "rejected" THEN "throw"
  ELSE IF a = "ready" THEN "true"
  ELSE "false"

\* for (...; attempt < maxRetries; attempt++)
\* (SameAttempt: the counter is not advanced.)
SameAttempt(attempt) == attempt

NextAttempt(attempt) == attempt + 1

\* A call of getAssetPreview: its arguments and the client's credentials
\* (size, credentials), its position (pc), the locals of the loop (attempt,
\* renditionRequested, waitTime), what it gave (result, error, status,
\* retryAfter) and, as history, the upstream calls and waits it made in
\* their order (calls) and the wait before the last one (prevWait).
\* generateResponse is what the POST that asks for the generation answered,
\* statusResponse what the last GET of the status answered.
StartPreview(size, credentials) ==
  [size |-> size, credentials |-> credentials, pc |-> "start",
   attempt |-> 0, renditionRequested |-> FALSE,
   generateResponse |-> "none", statusResponse |-> "none",
   waitTime |-> 0, prevWait |-> 0,
   result |-> "none", error |-> "none", status |-> 0, retryAfter |-> 0,
   calls |-> <<>>]

\* No call of getAssetPreview is made.
NoPreview == [pc |-> "none"]

\* ---------------------------- getAssetPreview that resolves 'fullsize'
\* (the variant of the method that asks the provider which sizes there are)
\* The name of a rendition size, as parseInt reads it: the decimal digits it
\* begins with, and what follows them.
Numeric(n) == [digits |-> NumToString(n), rest |-> ""]

Named(s) == [digits |-> <<>>, rest |-> s]

\* The size names of the provider.
SizeNames ==
  {Numeric(640), Numeric(1280), Numeric(2048), Numeric(2560),
   Named("thumbnail2x"), Named("fullsize")}

\* parseInt(s) of a size name, and isNaN of the result.
ParseSize(s) == ParseInt(s.digits)

IsNaN(n) == n = NaN

\* The renditions object of an asset, as the sequence of its keys in the
\* order of their insertion: up to MaxSizes different size names.
RenditionObjects ==
  {o \in UNION {[1..n -> SizeNames] : n \in 0..MaxSizes} :
     \A i, j \in DOMAIN o : i # j => o[i] # o[j]}

\* Object.keys: the keys that are array indices in ascending order, then
\* the other keys in the order of their insertion.
IsIndexKey(k) == k.rest = "" /\ k.digits # <<>> /\ k = Numeric(ParseSize(k))

RECURSIVE Ascending(_)
Ascending(S) ==
  IF S = {} THEN <<>>
  ELSE LET m == CHOOSE x \in S : \A y \in S : ParseSize(x) <= ParseSize(y)
       IN <<m>> \o Ascending(S \ {m})

ObjectKeys(o) ==
  Ascending({o[i] : i \in {j \in DOMAIN o : IsIndexKey(o[j])}})
    \o SelectSeq(o, LAMBDA k : ~IsIndexKey(k))

\* availableSizes.map(s => parseInt(s)).filter(n => !isNaN(n)), as the set
\* of its elements.
NumericSizes(availableSizes) ==
  {n \in {ParseSize(availableSizes[i]) : i \in DOMAIN availableSizes} :
     ~IsNaN(n)}

\* Math.max(...numericSizes)  (MathMin: the smallest is taken.)
MathMin(S) == CHOOSE m \in S : \A n \in S : n >= m

MathMax(S) == CHOOSE m \in S : \A n \in S : n <= m

\* availableSizes[availableSizes.length - 1] || '2560'
\* (FirstAvailable: availableSizes[0] || '2560'.)
FirstAvailable(availableSizes) ==
  IF availableSizes = <<>> THEN Numeric(2560) ELSE availableSizes[1]

LastAvailable(availableSizes) ==
  IF availableSizes = <<>> THEN Numeric(2560)
  ELSE availableSizes[Len(availableSizes)]

\* requestedSize of a 'fullsize' request.
LargestAvailable(availableSizes) ==
  IF NumericSizes(availableSizes) # {}
    THEN Numeric(MathMax(NumericSizes(availableSizes)))
  ELSE LastAvailable(availableSizes)

\* Math.max(2000, Math.min(10000, Math.floor(sizeNum / 256) * 1000)), or 5000
\* for a size that is no number.
Max2(a, b) == IF a >= b THEN a ELSE b

Min2(a, b) == IF a <= b THEN a ELSE b

BaseWaitOf(requestedSize) ==
  IF ~IsNaN(ParseSize(requestedSize))
    THEN Max2(2000, Min2(10000, (ParseSize(requestedSize) \div 256) * 1000))
  ELSE 5000

\* checkRenditionStatus of this variant, a HEAD of the rendition: response.ok,
\* and false when the fetch rejects.
RenditionExists(a) == a = "ok"

\* Math.floor(waitTime / 1000) with waitTime = baseWaitTime * 1.5^attempt
RetryAfter(baseWaitTime, attempt) ==
  (baseWaitTime * Pow(3, attempt)) \div (Pow(2, attempt) * 1000)

\* A call of this getAssetPreview: its argument and the client's credentials,
\* its position, its locals (availableSizes, requestedSize, attempt), what it
\* gave and, as history, the renditions object the provider answered with
\* (object) and the sizes its upstream calls named, in their order (tried).
StartFullsize(size, credentials) ==
  [size |-> size, credentials |-> credentials, pc |-> "start",
   object |-> <<>>, availableSizes |-> <<>>, requestedSize |-> size,
   attempt |-> 0,
   result |-> "none", status |-> 0, retryAfter |-> 0,
   tried |-> <<>>]

NoFullsize == [pc |-> "none"]

\* ------------------------------------------------- request: the body
\* A text is the sequence of its characters.
WhilePrefix == <<"w", "h", "i", "l", "e", " ", "(", "1", ")", " ", "{", "}">>

\* String.prototype.startsWith and substring(n)
StartsWith(s, prefix) ==
  Len(s) >= Len(prefix) /\ SubSeq(s, 1, Len(prefix)) = prefix

Substring(s, n) == SubSeq(s, n + 1, Len(s))

\* String.prototype.trim, and the white space JSON.parse skips around a
\* value.
WhiteSpace == {" ", "\n", "\t", "\r"}

RECURSIVE TrimStart(_)
TrimStart(s) ==
  IF s # <<>> /\ Head(s) \in WhiteSpace THEN TrimStart(Tail(s)) ELSE s

RECURSIVE TrimEnd(_)
TrimEnd(s) ==
  IF s # <<>> /\ s[Len(s)] \in WhiteSpace
    THEN TrimEnd(SubSeq(s, 1, Len(s) - 1))
  ELSE s

Trim(s) == TrimEnd(TrimStart(s))

\* The JSON texts of the model, each standing for the value it denotes.
JsonTexts ==
  { <<"{", "}">>,
    <<"[", "]">>,
    <<"1">>,
    <<"{", "\"", "a", "\"", ":", "1", "}">> }

\* JSON.parse: the value of a JSON text with white space around it, or a
\* SyntaxError.
JsonParse(s) ==
  IF Trim(s) \in JsonTexts THEN [ok |-> TRUE, value |-> Trim(s)]
  ELSE [ok |-> FALSE, value |-> <<>>]

\* if (responseText.startsWith(whilePrefix))
\*   responseText = responseText.substring(whilePrefix.length).trim()
\* (KeepPrefix: the text is parsed as it came.)
KeepPrefix(responseText) == responseText

StripPrefix(responseText) ==
  IF StartsWith(responseText, WhilePrefix)
    THEN Trim(Substring(responseText, Len(WhilePrefix)))
  ELSE responseText

\* What a body can begin with, what can follow, and the bodies of the model.
BodyStarts ==
  { <<>>, WhilePrefix,
    <<"w", "h", "i", "l", "e", "(", "1", ")", "{", "}">>,
    SubSeq(WhilePrefix, 1, 9) }

BodyGaps == { <<>>, <<" ">>, <<"\n">> }

BodyTexts ==
  JsonTexts \cup { <<>>, <<"{">>, <<"<", "h", "t", "m", "l", ">">> }

Bodies ==
  {b \o g \o t \o h :
     b \in BodyStarts, g \in BodyGaps, t \in BodyTexts, h \in BodyGaps}

\* A call of request: whether the client has an API key, its position, the
\* response (ok, body) and what the call gave: a value, or an error.
StartCall(apiKey) ==
  [apiKey |-> apiKey, pc |-> "start", ok |-> FALSE, body |-> <<>>,
   result |-> "none", value |-> <<>>, error |-> "none"]

NoCall == [pc |-> "none"]

\* ------------------------------------------------- the routes of the app
\* The keys of the credential namespace, and the credential that the
\* administrative request id has sent (0: the one set before the model
\* starts).
CredentialKeys == {"client_id", "client_secret"}

Credential(id) == [src |-> id, val |-> <<"credential", id>>]

NoCredentials == [k \in CredentialKeys |-> Null]

\* getAdobeCredentials: if (!clientId || !clientSecret) throw
\* (OnlyClientIdChecked: the secret is not looked at.)
OnlyClientIdChecked(clientId, clientSecret) == ~Truthy(clientId)

CredentialsMissing(clientId, clientSecret) ==
  ~Truthy(clientId) \/ ~Truthy(clientSecret)

\* The routes that read the credentials, and what the handler a route hands
\* the request to can come to: its status, its calls to the provider (token
\* endpoint and API) and its writes to the token store.
CredentialRoutes == {"start", "callback", "resource"}

HandlerOutcomes(kind) ==
  IF kind = "start" THEN {[status |-> 302, calls |-> 0, writes |-> 0]}
  ELSE IF kind = "callback"
    THEN {[status |-> 400, calls |-> 0, writes |-> 0],
          [status |-> 500, calls |-> 1, writes |-> 0],
          [status |-> 200, calls |-> 1, writes |-> 3]}
  ELSE {[status |-> 401, calls |-> 0, writes |-> 0],
        [status |-> 401, calls |-> 1, writes |-> 0],
        [status |-> 200, calls |-> 1, writes |-> 0],
        [status |-> 200, calls |-> 2, writes |-> 3],
        [status |-> 500, calls |-> 1, writes |-> 0]}

\* A request at a route: the route (kind), its position, the credentials it
\* has read and, of an administrative request, sent (idDone, secretDone:
\* the get or put of the key is done), its response (status), whether its
\* error left the route's function to be answered by the framework
\* (escaped), whether the route's handler was called (delegated), and the
\* handler's calls to the provider and writes to the token store.
NewRoute ==
  [kind |-> "none", pc |-> "idle",
   clientId |-> Null, clientSecret |-> Null,
   idDone |-> FALSE, secretDone |-> FALSE,
   status |-> 0, escaped |-> FALSE, delegated |-> FALSE,
   calls |-> 0, writes |-> 0]

\* --------------------------------------- the callback and its state value
\* The state values of the model: the UUIDs that handleOAuthStart can hand
\* out and that a callback can carry, and a callback without the parameter.
States == {"uuid-1", "uuid-2"}

NoState == "null"

\* handleOAuthCallback reads code, state, error and error_description of the
\* URL and checks error and code; state is read and not used.
\* (ValidateCallbackState: a callback without state is refused.)
ValidateCallbackState(params) ==
  IF params.state = NoState THEN 400
  ELSE CallbackValidation(params.code, params.error)

ValidateCallback(params) == CallbackValidation(params.code, params.error)

\* One handleOAuthCallback: the state of its URL, its position, its response
\* and, as history, its token store and the puts it made in their order.
StartRun(state, store) ==
  [state |-> state, pc |-> "idle", status |-> 0, body |-> NoBody,
   store |-> store, writes |-> <<>>]

\* Two callbacks whose URLs have the same code and error, to which the
\* token endpoint answers the same (outcome, expiresIn), each against its
\* own copy of the same store (store0); issued holds the state values that
\* handleOAuthStart has handed out.
StartPair(code, error, outcome, expiresIn, state1, state2, store) ==
  [pc |-> "run", code |-> code, error |-> error,
   outcome |-> outcome, expiresIn |-> expiresIn,
   issued |-> {}, store0 |-> store,
   run |-> <<StartRun(state1, store), StartRun(state2, store)>>]

NoPair == [pc |-> "none"]

\* ------------------------------------------------------------------ state
VARIABLES
  tokens,      \* the KV namespace of the OAuth tokens
  now,         \* Date.now()
  req,         \* the requests: position and locals of each
  sinceClear,  \* history: a clearAccessToken completed and nothing was put since
  preview,     \* one call of LightroomClient.getAssetPreview
  fullsize,    \* one call of the getAssetPreview that resolves 'fullsize'
  call,        \* one call of LightroomClient.request
  credentials, \* the KV namespace of the API credentials
  route,       \* the requests at the routes of the app
  pair         \* two callbacks side by side, each with its own token store

vars ==
  <<tokens, now, req, sinceClear, preview, fullsize, call, credentials, route,
    pair>>

\* The state of the token lifecycle, and the state beside it.
tokenVars == <<tokens, now, req, sinceClear>>

routeVars == <<credentials, route>>

clientVars == <<preview, fullsize, call, routeVars, pair>>

\* What a step of one of the client's methods, or of a route, leaves alone.
exceptPreview == <<tokenVars, fullsize, call, routeVars, pair>>

exceptFullsize == <<tokenVars, preview, call, routeVars, pair>>

exceptCall == <<tokenVars, preview, fullsize, routeVars, pair>>

exceptRoutes == <<tokenVars, preview, fullsize, call, pair>>

exceptPair == <<tokenVars, preview, fullsize, call, routeVars>>

\* A request: its handler (op), its position (pc) and its locals; as
\* history, what its getAccessToken read (complete, left), how its token call
\* ended (outcome), what getAccessToken gave (token, returned, threw), the
\* status and, for a failed exchange, the body of its response, the
\* calls to the token endpoint, the store writes and the upstream calls it
\* made, and whether it runs against a cleared store (clean).
NewRequest ==
  [op |-> "none", pc |-> "idle",
   code |-> FALSE, error |-> FALSE,
   rdAccess |-> Null, rdExpiry |-> Null,
   complete |-> FALSE, left |-> 0,
   outcome |-> "none", expiresIn |-> 0,
   token |-> Null, returned |-> FALSE, threw |-> FALSE,
   status |-> 0, body |-> NoBody,
   calls |-> 0, writes |-> 0, upstream |-> 0,
   clean |-> FALSE]

\* The token lifecycle before any request.
TokensAtRest ==
  /\ tokens = EmptyStore
  /\ now = 0
  /\ req = [r \in Req |-> NewRequest]
  /\ sinceClear = FALSE

\* No request is at the routes.
RoutesAtRest ==
  /\ credentials = NoCredentials
  /\ route = <<>>

Init ==
  /\ tokens \in {EmptyStore} \cup {StoredRecord(0, at) : at \in InitExpiries}
  /\ now = 0
  /\ req = [r \in Req |-> NewRequest]
  /\ sinceClear = FALSE
  /\ preview = NoPreview
  /\ fullsize = NoFullsize
  /\ call = NoCall
  /\ RoutesAtRest
  /\ pair = NoPair

\* One put of request r: the store changes, and every getAccessToken in
\* progress is no longer running against a cleared store.
DoPut(r, k, v, next) ==
  /\ tokens' = Put(tokens, k, v)
  /\ sinceClear' = FALSE
  /\ req' = [x \in Req |->
       IF x = r THEN next ELSE [req[x] EXCEPT !.clean = FALSE]]

\* What the handler answers after its call to the upstream photo API: the
\* data, or the 500 of the catch around the call.
UpstreamStatuses == {200, 500}

\* The handler's continuation when getAccessToken has returned tok (or has
\* thrown): the response of TokenGate, or the call of the client to the
\* upstream API and the response made of its answer (status).  After
\* getAccessToken the handler touches neither the token store nor the
\* clock, so the call and its answer are part of the step that ends
\* getAccessToken.
AfterToken(q, tok, threw, status) ==
  LET g == TokenGate(tok, threw)
      q1 == [q EXCEPT !.token = tok, !.returned = ~threw, !.threw = threw]
  IN IF g # 0 THEN [q1 EXCEPT !.status = g, !.pc = "done"]
     ELSE [q1 EXCEPT !.upstream = @ + 1, !.status = status, !.pc = "done"]

\* A request that has not arrived yet.  The requests are interchangeable,
\* so they arrive in the order of their numbers.
Idle(r) ==
  /\ req[r].pc = "idle"
  /\ r > 1 => req[r - 1].pc # "idle"

\* ------------------------------------------------------------ time passes
Tick ==
  /\ now < MaxTicks * TickMs
  /\ now' = now + TickMs
  /\ UNCHANGED <<tokens, req, sinceClear>>
  /\ UNCHANGED clientVars

\* --------------------------------------------------------- GET /auth/start
\* handleOAuthStart: a redirect to the provider; nothing is stored.
OAuthStart(r) ==
  /\ Idle(r)
  /\ req' = [req EXCEPT ![r] = [@ EXCEPT !.op = "start", !.status = 302, !.pc = "done"]]
  /\ UNCHANGED <<tokens, now, sinceClear>>
  /\ UNCHANGED clientVars

\* ------------------------------------------------------ GET /auth/callback
\* handleOAuthCallback up to its first await.
OAuthCallback(r) ==
  /\ Idle(r)
  /\ \E code \in BOOLEAN, error \in BOOLEAN :
       LET v == CallbackValidation(code, error)
           q == [req[r] EXCEPT !.op = "callback", !.code = code, !.error = error]
       IN req' = [req EXCEPT ![r] =
            IF v # 0 THEN [q EXCEPT !.status = v, !.pc = "done"]
            ELSE [q EXCEPT !.calls = @ + 1, !.pc = "cb_fetch"]]
  /\ UNCHANGED <<tokens, now, sinceClear>>
  /\ UNCHANGED clientVars

\* The token endpoint answers the exchange.
CallbackFetched(r) ==
  /\ req[r].pc = "cb_fetch"
  /\ \E o \in FetchOutcomes, x \in ExpiresInChoices :
       req' = [req EXCEPT ![r] =
         IF o = "ok"
           THEN [@ EXCEPT !.outcome = o, !.expiresIn = x, !.pc = "cb_put_access"]
         ELSE [@ EXCEPT !.outcome = o,
                        !.status = ExchangeFailed(o, ErrorText(r)).status,
                        !.body = ExchangeFailed(o, ErrorText(r)).body,
                        !.pc = "done"]]
  /\ UNCHANGED <<tokens, now, sinceClear>>
  /\ UNCHANGED clientVars

CallbackPutAccess(r) ==
  /\ req[r].pc = "cb_put_access"
  /\ DoPut(r, "access_token", TokenString(r),
           [req[r] EXCEPT !.writes = @ + 1, !.pc = "cb_put_refresh"])
  /\ UNCHANGED now
  /\ UNCHANGED clientVars

CallbackPutRefresh(r) ==
  /\ req[r].pc = "cb_put_refresh"
  /\ DoPut(r, "refresh_token", TokenString(r),
           [req[r] EXCEPT !.writes = @ + 1, !.pc = "cb_put_expiry"])
  /\ UNCHANGED now
  /\ UNCHANGED clientVars

CallbackPutExpiry(r) ==
  /\ req[r].pc = "cb_put_expiry"
  /\ DoPut(r, "token_expires_at", ExpiresAt(r, now, req[r].expiresIn),
           [req[r] EXCEPT !.writes = @ + 1, !.expiresIn = 0, !.status = 200,
                         !.pc = "done"])
  /\ UNCHANGED now
  /\ UNCHANGED clientVars

\* ---------------------------------------------------- /api/lightroom/...
\* handleLightroomRequest calls getAccessToken, which reads the three keys
\* one await after the other.  A request touches nothing shared before its
\* first read, so its arrival and that read are one step.
ResourceRequest(r) ==
  /\ Idle(r)
  /\ req' = [req EXCEPT ![r] =
       [@ EXCEPT !.op = "resource", !.clean = sinceClear,
                 !.rdAccess = tokens["access_token"], !.pc = "gat_get_expiry"]]
  /\ UNCHANGED <<tokens, now, sinceClear>>
  /\ UNCHANGED clientVars

GetExpiry(r) ==
  /\ req[r].pc = "gat_get_expiry"
  /\ req' = [req EXCEPT ![r] =
       [@ EXCEPT !.rdExpiry = tokens["token_expires_at"], !.pc = "gat_get_refresh"]]
  /\ UNCHANGED <<tokens, now, sinceClear>>
  /\ UNCHANGED clientVars

\* The third read resolves; the checks that follow run without an await:
\* missing information returns null, a token outside the buffer is
\* returned as it is, otherwise the refresh is sent.  The code reads
\* expiresAt and refreshToken no more after these checks, and accessToken
\* only to return it; the model forgets them and keeps, as history, what
\* was read: whether all three values were there (complete) and the time
\* the token read had left (left), and of a token that is returned as it
\* is, the access token and the expiry that were compared.
GetRefresh(r) ==
  /\ req[r].pc = "gat_get_refresh"
  /\ \E s \in UpstreamStatuses :
     LET a == req[r].rdAccess
         e == req[r].rdExpiry
         rf == tokens["refresh_token"]
         q == [req[r] EXCEPT !.rdAccess = Null, !.rdExpiry = Null,
                 !.complete = Truthy(a) /\ Truthy(e) /\ Truthy(rf),
                 !.left = IF Truthy(e) THEN ParseInt(e.val) - now ELSE 0]
     IN req' = [req EXCEPT ![r] =
          IF MissingTokenInfo(a, e, rf)
            THEN AfterToken(q, Null, FALSE, s)
          ELSE IF NeedsRefresh(now, e)
            THEN [q EXCEPT !.calls = @ + 1, !.pc = "gat_fetch"]
          ELSE AfterToken([q EXCEPT !.rdAccess = a, !.rdExpiry = e],
                          a, FALSE, s)]
  /\ UNCHANGED <<tokens, now, sinceClear>>
  /\ UNCHANGED clientVars

\* The token endpoint answers the refresh.
RefreshFetched(r) ==
  /\ req[r].pc = "gat_fetch"
  /\ \E o \in FetchOutcomes, x \in ExpiresInChoices, s \in UpstreamStatuses :
       LET w == RefreshOutcome(o)
       IN req' = [req EXCEPT ![r] =
            IF w = "store"
              THEN [@ EXCEPT !.outcome = o, !.expiresIn = x, !.pc = "gat_put_access"]
            ELSE AfterToken([@ EXCEPT !.outcome = o], Null, w = "throw", s)]
  /\ UNCHANGED <<tokens, now, sinceClear>>
  /\ UNCHANGED clientVars

RefreshPutAccess(r) ==
  /\ req[r].pc = "gat_put_access"
  /\ DoPut(r, "access_token", TokenString(r),
           [req[r] EXCEPT !.writes = @ + 1, !.pc = "gat_put_refresh"])
  /\ UNCHANGED now
  /\ UNCHANGED clientVars

RefreshPutRefresh(r) ==
  /\ req[r].pc = "gat_put_refresh"
  /\ DoPut(r, "refresh_token", TokenString(r),
           [req[r] EXCEPT !.writes = @ + 1, !.pc = "gat_put_expiry"])
  /\ UNCHANGED now
  /\ UNCHANGED clientVars

RefreshPutExpiry(r) ==
  /\ req[r].pc = "gat_put_expiry"
  /\ \E s \in UpstreamStatuses :
       DoPut(r, "token_expires_at", ExpiresAt(r, now, req[r].expiresIn),
             AfterToken([req[r] EXCEPT !.writes = @ + 1, !.expiresIn = 0],
                        TokenString(r), FALSE, s))
  /\ UNCHANGED now
  /\ UNCHANGED clientVars

\* ------------------------------------------------------- clearAccessToken
\* The call and its first delete.
ClearTokens(r) ==
  /\ Idle(r)
  /\ tokens' = Delete(tokens, "access_token")
  /\ req' = [req EXCEPT ![r] =
       [@ EXCEPT !.op = "clear", !.writes = @ + 1, !.pc = "clr_refresh"]]
  /\ UNCHANGED <<now, sinceClear>>
  /\ UNCHANGED clientVars

ClearDeleteRefresh(r) ==
  /\ req[r].pc = "clr_refresh"
  /\ tokens' = Delete(tokens, "refresh_token")
  /\ req' = [req EXCEPT ![r] = [@ EXCEPT !.writes = @ + 1, !.pc = "clr_expiry"]]
  /\ UNCHANGED <<now, sinceClear>>
  /\ UNCHANGED clientVars

ClearDeleteExpiry(r) ==
  /\ req[r].pc = "clr_expiry"
  /\ tokens' = Delete(tokens, "token_expires_at")
  /\ sinceClear' = TRUE
  /\ req' = [req EXCEPT ![r] = [@ EXCEPT !.writes = @ + 1, !.pc = "done"]]
  /\ UNCHANGED now
  /\ UNCHANGED clientVars

\* ------------------------------------------------------------------- spec
Next ==
  \/ Tick
  \/ \E r \in Req :
       \/ OAuthStart(r)
       \/ OAuthCallback(r)
       \/ CallbackFetched(r)
       \/ CallbackPutAccess(r)
       \/ CallbackPutRefresh(r)
       \/ CallbackPutExpiry(r)
       \/ ResourceRequest(r)
       \/ GetExpiry(r)
       \/ GetRefresh(r)
       \/ RefreshFetched(r)
       \/ RefreshPutAccess(r)
       \/ RefreshPutRefresh(r)
       \/ RefreshPutExpiry(r)
       \/ ClearTokens(r)
       \/ ClearDeleteRefresh(r)
       \/ ClearDeleteExpiry(r)

Spec == Init /\ [][Next]_vars

\* -------------------------------------------------------- getAssetPreview
\* return previewResponse
ReturnImage(p) == [p EXCEPT !.result = "image", !.status = 200, !.pc = "done"]

\* throw new Error(...); the catch of getAssetPreview throws it again.
Throw(p, e) == [p EXCEPT !.result = "error", !.error = e, !.pc = "done"]

\* An upstream call or a wait is made.
Call(p, c, pc) == [p EXCEPT !.calls = Append(@, c), !.pc = pc]

\* A call of getAssetPreview that has not begun.
InitPreview ==
  /\ TokensAtRest
  /\ preview \in {StartPreview(size, c) : size \in Sizes, c \in BOOLEAN}
  /\ fullsize = NoFullsize
  /\ call = NoCall
  /\ RoutesAtRest
  /\ pair = NoPair

\* getAssetPreview up to its first await: the check of the credentials, then
\* the fetch of a direct size or the first fetch of the generation loop.
GetAssetPreview ==
  /\ preview.pc = "start"
  /\ preview' =
       IF ~preview.credentials
         THEN Throw(preview, "credentials_required")
       ELSE IF ~IsGeneratedSize(preview.size)
         THEN Call(preview, "get", "fetch_direct")
       ELSE Call(preview, "get", "fetch")
  /\ UNCHANGED exceptPreview

\* The fetch of a direct size is answered.
DirectFetched ==
  /\ preview.pc = "fetch_direct"
  /\ \E a \in FetchAnswers :
       preview' =
         IF a = "ok" THEN ReturnImage(preview)
         ELSE IF a = "rejected" THEN Throw(preview, "fetch_rejected")
         ELSE Throw(preview, "failed_to_get_preview")
  /\ UNCHANGED exceptPreview

\* The fetch at the head of the loop is answered: the image is returned, or
\* on a 404 the generation is asked for (once) and then the status, or the
\* error is thrown.
LoopFetched ==
  /\ preview.pc = "fetch"
  /\ \E a \in FetchAnswers :
       preview' =
         IF a = "ok" THEN ReturnImage(preview)
         ELSE IF a = "rejected" THEN Throw(preview, "fetch_rejected")
         ELSE IF a = "not_found"
           THEN IF ~preview.renditionRequested
                  THEN Call(preview, "trigger", "trigger")
                ELSE Call(preview, "status", "status")
         ELSE Throw(preview, "failed_to_get_rendition")
  /\ UNCHANGED exceptPreview

\* After the POST that asks for the generation: if (!generateResponse.ok)
\* throw; otherwise renditionRequested = true and the status is checked.
\* (TriggerErrorIgnored: the response is not looked at.)
TriggerErrorIgnored(p, a) ==
  Call([p EXCEPT !.renditionRequested = TRUE], "status", "status")

AfterTrigger(p, a) ==
  IF a = "ok"
    THEN Call([p EXCEPT !.renditionRequested = TRUE], "status", "status")
  ELSE IF a = "rejected" THEN Throw(p, "fetch_rejected")
  ELSE Throw(p, "failed_to_request_generation")

\* The POST that asks for the generation is answered.
TriggerAnswered ==
  /\ preview.pc = "trigger"
  /\ \E a \in FetchAnswers :
       preview' = AfterTrigger([preview EXCEPT !.generateResponse = a], a)
  /\ UNCHANGED exceptPreview

\* checkRenditionStatus returns: when the rendition is not ready the wait
\* begins; when it is ready, the loop's iteration goes on to the throw that
\* follows the handling of the 404.
StatusAnswered ==
  /\ preview.pc = "status"
  /\ \E a \in StatusAnswers, jitter \in JitterChoices :
       LET isReady == CheckRenditionStatus(a)
           p == [preview EXCEPT !.statusResponse = a]
       IN preview' =
            IF isReady = "throw" THEN Throw(p, "fetch_rejected")
            ELSE IF isReady = "false"
              THEN Call([p EXCEPT
                           !.prevWait = preview.waitTime,
                           !.waitTime = WaitTime(BaseWaitTime(preview.size),
                                                 preview.attempt, jitter)],
                        "wait", "wait")
            ELSE Throw(p, "failed_to_get_rendition")
  /\ UNCHANGED exceptPreview

\* The wait is over: continue, that is attempt++ and the test of the loop;
\* after the last attempt the loop is left and the error is thrown.
WaitElapsed ==
  /\ preview.pc = "wait"
  /\ LET p == [preview EXCEPT !.attempt = NextAttempt(@)]
     IN preview' =
          IF p.attempt < MaxRetries THEN Call(p, "get", "fetch")
          ELSE Throw(p, "maximum_retries_exceeded")
  /\ UNCHANGED exceptPreview

NextPreview ==
  \/ GetAssetPreview
  \/ DirectFetched
  \/ LoopFetched
  \/ TriggerAnswered
  \/ StatusAnswered
  \/ WaitElapsed

SpecPreview == InitPreview /\ [][NextPreview]_vars

\* Every upstream call is answered and every wait ends: a step of the call
\* that can be taken is taken.
SpecPreviewFair == SpecPreview /\ WF_vars(NextPreview)

\* ---------------------------- getAssetPreview that resolves 'fullsize'
\* An upstream call that names the size requestedSize is made.
Ask(f, pc) ==
  [f EXCEPT !.pc = pc,
            !.tried = IF @ # <<>> /\ @[Len(@)] = f.requestedSize THEN @
                      ELSE Append(@, f.requestedSize)]

Fail(f) == [f EXCEPT !.result = "error", !.pc = "done"]

InitFullsize ==
  /\ TokensAtRest
  /\ preview = NoPreview
  /\ call = NoCall
  /\ RoutesAtRest
  /\ pair = NoPair
  /\ fullsize \in {StartFullsize(size, c) :
                     size \in {Named("fullsize"), Numeric(2048)},
                     c \in BOOLEAN}

\* The method up to its first await: the check of the credentials, then the
\* request for the available sizes of a 'fullsize' request, or the check
\* whether the rendition of the size asked for exists.
ResolveFullsize ==
  /\ fullsize.pc = "start"
  /\ fullsize' =
       IF ~fullsize.credentials THEN Fail(fullsize)
       ELSE IF fullsize.size = Named("fullsize")
         THEN [fullsize EXCEPT !.pc = "sizes"]
       ELSE Ask(fullsize, "exists")
  /\ UNCHANGED exceptFullsize

\* getAvailableRenditionSizes returns the keys of the renditions object, or
\* the request throws; the size to ask for is chosen and the check whether
\* its rendition exists is sent.
SizesListed ==
  /\ fullsize.pc = "sizes"
  /\ \/ fullsize' = Fail(fullsize)
     \/ \E o \in RenditionObjects :
          fullsize' =
            Ask([fullsize EXCEPT
                   !.object = o,
                   !.availableSizes = ObjectKeys(o),
                   !.requestedSize = LargestAvailable(ObjectKeys(o))],
                "exists")
  /\ UNCHANGED exceptFullsize

\* The first checkRenditionStatus returns: the rendition is fetched, or its
\* generation is asked for.
ExistenceChecked ==
  /\ fullsize.pc = "exists"
  /\ \E a \in FetchAnswers :
       fullsize' =
         IF RenditionExists(a) THEN Ask(fullsize, "fetch")
         ELSE Ask(fullsize, "generate")
  /\ UNCHANGED exceptFullsize

\* The POST that asks for the generation is answered; on a 2xx the first
\* wait begins.
GenerationAnswered ==
  /\ fullsize.pc = "generate"
  /\ \E a \in FetchAnswers :
       fullsize' =
         IF a = "ok" THEN [fullsize EXCEPT !.pc = "wait"]
         ELSE Fail(fullsize)
  /\ UNCHANGED exceptFullsize

\* The wait is over and the status is checked.
PollWaited ==
  /\ fullsize.pc = "wait"
  /\ fullsize' = Ask(fullsize, "poll")
  /\ UNCHANGED exceptFullsize

\* checkRenditionStatus returns in the loop: ready leaves the loop for the
\* fetch; not ready in the last attempt returns the 202 response; otherwise
\* the next attempt begins with its wait.
PollChecked ==
  /\ fullsize.pc = "poll"
  /\ \E a \in FetchAnswers :
       fullsize' =
         IF RenditionExists(a) THEN Ask(fullsize, "fetch")
         ELSE IF fullsize.attempt = MaxRetries - 1
           THEN [fullsize EXCEPT
                   !.result = "processing", !.status = 202,
                   !.retryAfter = RetryAfter(BaseWaitOf(fullsize.requestedSize),
                                             fullsize.attempt),
                   !.pc = "done"]
         ELSE [fullsize EXCEPT !.attempt = @ + 1, !.pc = "wait"]
  /\ UNCHANGED exceptFullsize

\* The fetch of the rendition is answered.
RenditionFetched ==
  /\ fullsize.pc = "fetch"
  /\ \E a \in FetchAnswers :
       fullsize' =
         IF a = "ok"
           THEN [fullsize EXCEPT !.result = "image", !.status = 200,
                                 !.pc = "done"]
         ELSE Fail(fullsize)
  /\ UNCHANGED exceptFullsize

NextFullsize ==
  \/ ResolveFullsize
  \/ SizesListed
  \/ ExistenceChecked
  \/ GenerationAnswered
  \/ PollWaited
  \/ PollChecked
  \/ RenditionFetched

SpecFullsize == InitFullsize /\ [][NextFullsize]_vars

\* ---------------------------------------------------------------- request
InitRequest ==
  /\ TokensAtRest
  /\ preview = NoPreview
  /\ fullsize = NoFullsize
  /\ call \in {StartCall(k) : k \in BOOLEAN}
  /\ RoutesAtRest
  /\ pair = NoPair

\* request up to the fetch: without an API key it throws.
Request ==
  /\ call.pc = "start"
  /\ call' =
       IF ~call.apiKey
         THEN [call EXCEPT !.result = "error", !.error = "api_key_required",
                           !.pc = "done"]
       ELSE [call EXCEPT !.pc = "fetch"]
  /\ UNCHANGED exceptCall

\* The fetch rejects.
RequestRejected ==
  /\ call.pc = "fetch"
  /\ call' = [call EXCEPT !.result = "error", !.error = "fetch_rejected",
                          !.pc = "done"]
  /\ UNCHANGED exceptCall

\* The response has come.
RequestAnswered ==
  /\ call.pc = "fetch"
  /\ \E ok \in BOOLEAN, body \in Bodies :
       call' = [call EXCEPT !.ok = ok, !.body = body, !.pc = "text"]
  /\ UNCHANGED exceptCall

\* response.text() has resolved: the prefix is taken off, the text is
\* parsed, and the value is returned when the response is a 2xx.
RequestParsed ==
  /\ call.pc = "text"
  /\ LET responseData == JsonParse(StripPrefix(call.body))
     IN call' =
          IF ~responseData.ok
            THEN [call EXCEPT !.result = "error", !.error = "invalid_json",
                              !.pc = "done"]
          ELSE IF ~call.ok
            THEN [call EXCEPT !.result = "error", !.error = "api_error",
                              !.pc = "done"]
          ELSE [call EXCEPT !.result = "value", !.value = responseData.value,
                            !.pc = "done"]
  /\ UNCHANGED exceptCall

NextRequest ==
  \/ Request
  \/ RequestRejected
  \/ RequestAnswered
  \/ RequestParsed

SpecRequest == InitRequest /\ [][NextRequest]_vars

\* ------------------------------------------------- the routes of the app
\* The credential namespace is empty, holds a pair, or holds one of the two
\* keys only.
InitRoutes ==
  /\ TokensAtRest
  /\ preview = NoPreview
  /\ fullsize = NoFullsize
  /\ call = NoCall
  /\ pair = NoPair
  /\ credentials \in
       [CredentialKeys -> {Null, Credential(0)}]
  /\ route = [r \in Req |-> NewRoute]

\* A request that has not arrived; requests arrive in the order of their
\* numbers.
RouteIdle(r) ==
  /\ route[r].pc = "idle"
  /\ r > 1 => route[r - 1].pc # "idle"

\* An error thrown out of a route's function: the framework answers 500.
Uncaught(q) == [q EXCEPT !.status = 500, !.escaped = TRUE, !.pc = "done"]

\* getAdobeCredentials has both values: it throws when one is missing,
\* which the route of the resource requests catches (500) and the routes of
\* the OAuth flow do not; otherwise the route calls its handler.
GotCredentials(q) ==
  IF CredentialsMissing(q.clientId, q.clientSecret)
    THEN IF q.kind = "resource"
           THEN [q EXCEPT !.status = 500, !.pc = "done"]
         ELSE Uncaught(q)
  ELSE [q EXCEPT !.delegated = TRUE, !.pc = "handler"]

\* A request arrives at /auth/start, /auth/callback or /api/lightroom/*:
\* getAdobeCredentials sends the two gets.
RouteRequest(r) ==
  /\ RouteIdle(r)
  /\ \E kind \in CredentialRoutes :
       route' = [route EXCEPT ![r] = [@ EXCEPT !.kind = kind, !.pc = "get"]]
  /\ UNCHANGED <<credentials, exceptRoutes>>

\* One of the two gets of Promise.all reads the store; when both have, the
\* request goes on.
GetClientId(r) ==
  /\ route[r].pc = "get" /\ ~route[r].idDone
  /\ LET q == [route[r] EXCEPT !.clientId = credentials["client_id"],
                               !.idDone = TRUE]
     IN route' = [route EXCEPT ![r] =
          IF q.secretDone THEN GotCredentials(q) ELSE q]
  /\ UNCHANGED <<credentials, exceptRoutes>>

GetClientSecret(r) ==
  /\ route[r].pc = "get" /\ ~route[r].secretDone
  /\ LET q == [route[r] EXCEPT !.clientSecret = credentials["client_secret"],
                               !.secretDone = TRUE]
     IN route' = [route EXCEPT ![r] =
          IF q.idDone THEN GotCredentials(q) ELSE q]
  /\ UNCHANGED <<credentials, exceptRoutes>>

\* The handler of the route returns its response.
HandlerReturned(r) ==
  /\ route[r].pc = "handler"
  /\ \E o \in HandlerOutcomes(route[r].kind) :
       route' = [route EXCEPT ![r] =
         [@ EXCEPT !.status = o.status, !.calls = o.calls,
                   !.writes = o.writes, !.pc = "done"]]
  /\ UNCHANGED <<credentials, exceptRoutes>>

\* POST /admin/credentials: a body that is no JSON throws, a body without
\* one of the two values is answered 400, otherwise the two puts are sent.
AdminCredentials(r) ==
  /\ RouteIdle(r)
  /\ \E json \in BOOLEAN, hasId \in BOOLEAN, hasSecret \in BOOLEAN :
       LET q == [route[r] EXCEPT
                   !.kind = "admin",
                   !.clientId = IF json /\ hasId THEN Credential(r) ELSE Null,
                   !.clientSecret =
                     IF json /\ hasSecret THEN Credential(r) ELSE Null]
       IN route' = [route EXCEPT ![r] =
            IF ~json THEN Uncaught(q)
            ELSE IF CredentialsMissing(q.clientId, q.clientSecret)
              THEN [q EXCEPT !.status = 400, !.pc = "done"]
            ELSE [q EXCEPT !.pc = "put"]]
  /\ UNCHANGED <<credentials, exceptRoutes>>

\* One of the two puts of Promise.all reaches the store; when both have,
\* the request is answered.
AdminPut(q) ==
  IF q.idDone /\ q.secretDone THEN [q EXCEPT !.status = 200, !.pc = "done"]
  ELSE q

PutClientId(r) ==
  /\ route[r].pc = "put" /\ ~route[r].idDone
  /\ credentials' = Put(credentials, "client_id", route[r].clientId)
  /\ route' = [route EXCEPT ![r] = AdminPut([@ EXCEPT !.idDone = TRUE])]
  /\ UNCHANGED exceptRoutes

PutClientSecret(r) ==
  /\ route[r].pc = "put" /\ ~route[r].secretDone
  /\ credentials' = Put(credentials, "client_secret", route[r].clientSecret)
  /\ route' = [route EXCEPT ![r] = AdminPut([@ EXCEPT !.secretDone = TRUE])]
  /\ UNCHANGED exceptRoutes

NextRoutes ==
  \E r \in Req :
    \/ RouteRequest(r)
    \/ GetClientId(r)
    \/ GetClientSecret(r)
    \/ HandlerReturned(r)
    \/ AdminCredentials(r)
    \/ PutClientId(r)
    \/ PutClientSecret(r)

SpecRoutes == InitRoutes /\ [][NextRoutes]_vars

\* --------------------------------------- the callback and its state value
InitCallbackPair ==
  /\ TokensAtRest
  /\ preview = NoPreview
  /\ fullsize = NoFullsize
  /\ call = NoCall
  /\ RoutesAtRest
  /\ pair \in {StartPair(code, error, o, x, s1, s2, store) :
                 code \in BOOLEAN, error \in BOOLEAN,
                 o \in FetchOutcomes, x \in ExpiresInChoices,
                 s1 \in States \cup {NoState}, s2 \in States \cup {NoState},
                 store \in {EmptyStore, StoredRecord(0, TickMs)}}

\* handleOAuthStart: a new state value goes into the redirect URL; nothing
\* is stored.
PairStart ==
  /\ pair.pc = "run"
  /\ \E state \in States \ pair.issued :
       pair' = [pair EXCEPT !.issued = @ \cup {state}]
  /\ UNCHANGED exceptPair

\* handleOAuthCallback up to its first await.
PairCallback(w) ==
  /\ pair.pc = "run" /\ pair.run[w].pc = "idle"
  /\ LET v == ValidateCallback([code |-> pair.code, error |-> pair.error,
                                state |-> pair.run[w].state])
     IN pair' = [pair EXCEPT !.run[w] =
          IF v # 0 THEN [@ EXCEPT !.status = v, !.pc = "done"]
          ELSE [@ EXCEPT !.pc = "fetch"]]
  /\ UNCHANGED exceptPair

\* The token endpoint answers the exchange.
PairFetched(w) ==
  /\ pair.pc = "run" /\ pair.run[w].pc = "fetch"
  /\ pair' = [pair EXCEPT !.run[w] =
       IF pair.outcome = "ok" THEN [@ EXCEPT !.pc = "put_access"]
       ELSE [@ EXCEPT
               !.status = ExchangeFailed(pair.outcome, ErrorText(0)).status,
               !.body = ExchangeFailed(pair.outcome, ErrorText(0)).body,
               !.pc = "done"]]
  /\ UNCHANGED exceptPair

\* The three puts, one after the other, and the response.
PairPut(w) ==
  /\ pair.pc = "run"
  /\ \E k \in Keys :
       /\ pair.run[w].pc =
            (IF k = "access_token" THEN "put_access"
             ELSE IF k = "refresh_token" THEN "put_refresh"
             ELSE "put_expiry")
       /\ LET v == IF k = "token_expires_at"
                     THEN ExpiresAt(1, now, pair.expiresIn)
                   ELSE TokenString(1)
              q == [pair.run[w] EXCEPT
                      !.store = Put(@, k, v),
                      !.writes = Append(@, <<k, v>>)]
          IN pair' = [pair EXCEPT !.run[w] =
               IF k = "access_token" THEN [q EXCEPT !.pc = "put_refresh"]
               ELSE IF k = "refresh_token" THEN [q EXCEPT !.pc = "put_expiry"]
               ELSE [q EXCEPT !.status = 200, !.pc = "done"]]
  /\ UNCHANGED exceptPair

NextCallbackPair ==
  \/ PairStart
  \/ \E w \in {1, 2} :
       \/ PairCallback(w)
       \/ PairFetched(w)
       \/ PairPut(w)

SpecCallbackPair == InitCallbackPair /\ [][NextCallbackPair]_vars

\* ----------------------------------------------------------------- claims
\* Request r has got the answer of its getAccessToken.
GotToken(r) == req[r].op = "resource" /\ (req[r].returned \/ req[r].threw)

\* The 5 minutes the claims speak of, in milliseconds.
FiveMinutes == 5 * 60 * 1000

\* All three keys hold values of the token response id.
RecordOf(id) == \A k \in Keys : Truthy(tokens[k]) /\ tokens[k].src = id

\* The store holds the access token and the refresh token of the token
\* response of request r.
TokensOf(r) ==
  /\ tokens["access_token"] = TokenString(r)
  /\ tokens["refresh_token"] = TokenString(r)

\* C1: in every reachable state, the states between the puts of one
\* exchange or refresh included, the stored access token, refresh token and
\* expiry come from the same token response, or none of them is stored: no
\* token write is partial.  (The deletes of clearAccessToken are left aside:
\* the formula speaks of the runs in which it is not called.)
C1_TokenRecordWhole ==
  (\A r \in Req : req[r].op # "clear") =>
    \/ \A k \in Keys : ~Truthy(tokens[k])
    \/ \E id \in 0..NumReq : RecordOf(id)

\* C2: once two requests that both refreshed have finished (and nothing else
\* ran), the stored record is the result of one of the two refreshes, not a
\* mixture: the access token and the refresh token stored are those of the
\* same refresh.  (The claim says the same of the expiry.)
C2_LastRefreshWins ==
  \A a, b \in Req :
    ( /\ a # b
      /\ GotToken(a) /\ req[a].outcome = "ok"
      /\ GotToken(b) /\ req[b].outcome = "ok"
      /\ \A x \in Req \ {a, b} : req[x].pc = "idle" )
    => (TokensOf(a) \/ TokensOf(b))

\* C3: a getAccessToken that read a complete record with more than 5
\* minutes left returns the access token it read, calls the token endpoint
\* not at all and writes nothing.
C3_FreshTokenReturned ==
  \A r \in Req :
    (GotToken(r) /\ req[r].complete /\ req[r].left > FiveMinutes)
    => /\ req[r].returned
       /\ Truthy(req[r].token) /\ req[r].token = req[r].rdAccess
       /\ req[r].calls = 0
       /\ req[r].writes = 0

C3_Witness ==
  \E r \in Req :
    /\ GotToken(r) /\ req[r].complete /\ req[r].left > FiveMinutes
    /\ req[r].token = req[r].rdAccess /\ req[r].token.src = 0

\* C4: a getAccessToken that read a complete record with less than 5 minutes
\* left (or already expired) has made exactly one call to the token endpoint
\* when it returns, and no getAccessToken ever makes more than one.
C4_ExactlyOneRefresh ==
  \A r \in Req :
    /\ req[r].op = "resource" => req[r].calls <= 1
    /\ (GotToken(r) /\ req[r].complete /\ req[r].left < FiveMinutes)
         => req[r].calls = 1

C4_Witness ==
  \E r \in Req :
    /\ GotToken(r) /\ req[r].complete /\ req[r].left < FiveMinutes
    /\ req[r].outcome = "ok" /\ req[r].token = TokenString(r)

\* C5: a getAccessToken whose refresh call failed (non-2xx answer, network
\* failure, unparsable body) returns null; no getAccessToken throws.
C5_RefreshFailureIsNull ==
  \A r \in Req :
    req[r].op = "resource" =>
      /\ ~req[r].threw
      /\ req[r].outcome \in FetchOutcomes \ {"ok"}
           => req[r].returned /\ ~Truthy(req[r].token)

C5_Witness ==
  \E r \in Req :
    /\ GotToken(r) /\ req[r].outcome = "network_error"
    /\ req[r].returned /\ ~Truthy(req[r].token)

\* C6: a getAccessToken that starts after a clearAccessToken has completed,
\* and runs with no put to the store in between, returns null and makes no
\* call to the token endpoint.
C6_ClearedThenNull ==
  \A r \in Req :
    (GotToken(r) /\ req[r].clean)
    => /\ req[r].returned /\ ~Truthy(req[r].token)
       /\ req[r].calls = 0

C6_Witness ==
  \E r, c \in Req :
    /\ req[c].op = "clear" /\ req[c].pc = "done"
    /\ GotToken(r) /\ req[r].clean /\ ~Truthy(req[r].token)

\* C7: a getAccessToken that found one of the three values missing returns
\* null, normally: it does not throw, calls the token endpoint not at all
\* and writes nothing.
C7_MissingIsNull ==
  \A r \in Req :
    (GotToken(r) /\ ~req[r].complete)
    => /\ req[r].returned /\ ~req[r].threw
       /\ ~Truthy(req[r].token)
       /\ req[r].calls = 0
       /\ req[r].writes = 0

C7_Witness ==
  \E r \in Req :
    /\ GotToken(r) /\ ~req[r].complete
    /\ req[r].returned /\ ~Truthy(req[r].token)
    /\ Truthy(tokens["access_token"])

\* C8: a resource request whose getAccessToken gave null is answered 401
\* with no upstream call, and an upstream call is made only by a request
\* whose getAccessToken has returned a token.
C8_NoTokenIs401 ==
  \A r \in Req :
    req[r].op = "resource" =>
      /\ (GotToken(r) /\ ~Truthy(req[r].token))
           => req[r].status = 401 /\ req[r].upstream = 0
      /\ req[r].upstream > 0 => req[r].returned /\ Truthy(req[r].token)

C8_Witness ==
  \E r \in Req :
    /\ GotToken(r) /\ req[r].outcome = "http_error"
    /\ req[r].status = 401 /\ req[r].upstream = 0

\* C9: an OAuth callback without a code is answered 400, makes no call to
\* the token endpoint and writes nothing to the token store.
C9_MissingCodeIs400 ==
  \A r \in Req :
    (req[r].op = "callback" /\ ~req[r].code)
    => /\ req[r].status = 400
       /\ req[r].calls = 0
       /\ req[r].writes = 0

C9_Witness ==
  \E r \in Req :
    /\ req[r].op = "callback" /\ ~req[r].code /\ ~req[r].error
    /\ req[r].status = 400

\* C10: an OAuth callback in which the provider reports an error is answered
\* 400 also when it carries a code; it makes no token exchange call and
\* writes nothing to the token store.
C10_ProviderErrorIs400 ==
  \A r \in Req :
    (req[r].op = "callback" /\ req[r].error)
    => /\ req[r].status = 400
       /\ req[r].calls = 0
       /\ req[r].writes = 0

C10_Witness ==
  \E r \in Req :
    /\ req[r].op = "callback" /\ req[r].error /\ req[r].code
    /\ req[r].status = 400

\* C11: an OAuth callback whose exchange got a non-2xx answer is answered 500
\* with the text of the token endpoint's answer in the body, and has written
\* nothing to the token store.
C11_ExchangeFailureIs500 ==
  \A r \in Req :
    (req[r].op = "callback" /\ req[r].outcome = "http_error")
    => /\ req[r].pc = "done"
       /\ req[r].status = 500
       /\ req[r].body.text = ErrorText(r)
       /\ req[r].writes = 0

C11_Witness ==
  \E r \in Req :
    /\ req[r].op = "callback" /\ req[r].outcome = "http_error"
    /\ req[r].status = 500 /\ req[r].body.text = ErrorText(r)
    /\ RecordOf(0)

\* C12: when the last put of a successful exchange is done, the store holds
\* the record of that exchange: the access token and the refresh token of
\* its response, and an expiry that reads back as the time of that put plus
\* expires_in * 1000.
C12_ExchangeStoresRecord ==
  [][\A r \in Req :
       (req[r].pc = "cb_put_expiry" /\ req'[r].pc = "done")
       => /\ req'[r].status = 200
          /\ tokens'["access_token"] = TokenString(r)
          /\ tokens'["refresh_token"] = TokenString(r)
          /\ tokens'["token_expires_at"].src = r
          /\ ParseInt(tokens'["token_expires_at"].val)
               = now + req[r].expiresIn * 1000]_vars

\* The sizes that are served without generation, and the calls that look
\* whether a rendition exists.
DirectSizes == {"thumbnail2x", "2048"}

Probes == {"get", "status"}

\* C13: the calls of a getAssetPreview for a generated size come in this
\* order: one existence probe; if it found nothing, one generation trigger;
\* then waits and existence probes in turn, each probe preceded by a wait, at
\* most 8 of them; no second trigger.
C13_CallOrder ==
  preview.size \in Sizes \ DirectSizes =>
    LET log == preview.calls
    IN /\ Len(log) <= 2 + 2 * MaxRetries
       /\ \A i \in 1..Len(log) :
            /\ i = 1 => log[i] \in Probes
            /\ i = 2 => log[i] = "trigger"
            /\ (i > 2 /\ i % 2 = 1) => log[i] = "wait"
            /\ (i > 2 /\ i % 2 = 0) => log[i] \in Probes

\* C14: a getAssetPreview that has made 8 polling attempts without finding
\* the rendition ends with the processing result, status 202 and a positive
\* retryAfter, not with an error.
C14_ExhaustionIsProcessing ==
  (preview.pc = "done" /\ preview.attempt = MaxRetries)
  => /\ preview.result = "processing"
     /\ preview.status = 202
     /\ preview.retryAfter > 0

\* C15: from the second wait of a polling run on, each wait is longer than
\* the one before it, by a factor between 1.5 / 1.2 and 1.5 * 1.2.
C15_WaitsIncrease ==
  preview.prevWait > 0 =>
    /\ preview.waitTime > preview.prevWait
    /\ 4 * preview.waitTime >= 5 * preview.prevWait
    /\ 5 * preview.waitTime <= 9 * preview.prevWait

C15_Witness ==
  /\ preview.prevWait > 0
  /\ preview.attempt = MaxRetries
  /\ 2 * preview.waitTime < 3 * preview.prevWait

\* C16: a getAssetPreview for a direct size makes one upstream call, the
\* fetch of the rendition, and no other call or wait, whether the fetch
\* succeeds or fails.
C16_DirectIsOneFetch ==
  (preview.size \in DirectSizes /\ preview.pc # "none") =>
    /\ Len(preview.calls) <= 1
    /\ (preview.pc = "done" /\ preview.credentials)
         => preview.calls = <<"get">>

C16_Witness ==
  /\ preview.size \in DirectSizes
  /\ preview.pc = "done" /\ preview.result = "error"
  /\ preview.error = "failed_to_get_preview"
  /\ preview.calls = <<"get">>

\* The sizes of a list that are numbers, and a 'fullsize' call that has
\* chosen its size.
NumericOf(availableSizes) ==
  {availableSizes[i] : i \in {j \in DOMAIN availableSizes :
                                 availableSizes[j].digits # <<>>
                                 /\ availableSizes[j].rest = ""}}

Resolved ==
  /\ fullsize.size = Named("fullsize")
  /\ fullsize.pc \notin {"none", "start", "sizes"}
  /\ fullsize.tried # <<>>

AfterPrefix(body) == SubSeq(body, Len(WhilePrefix) + 1, Len(body))

IsJson(text) == \E t \in JsonTexts, g, h \in BodyGaps : text = g \o t \o h

\* C19: a request whose 2xx response body begins with 'while (1) {}'
\* returns the value of the JSON text that follows the prefix; a request
\* whose body, the prefix taken off, is no JSON text fails with the
\* invalid-JSON error and returns no value.
C19_PrefixStripped ==
  call.pc = "done" /\ call.error \notin {"api_key_required", "fetch_rejected"} =>
    LET hasPrefix == StartsWith(call.body, WhilePrefix)
        text == IF hasPrefix THEN AfterPrefix(call.body) ELSE call.body
    IN /\ (hasPrefix /\ call.ok /\ IsJson(text))
            => call.result = "value"
               /\ \E g, h \in BodyGaps : text = g \o call.value \o h
       /\ ~IsJson(text)
            => call.result = "error" /\ call.error = "invalid_json"
               /\ call.value = <<>>

C19_Witness ==
  /\ call.pc = "done"
  /\ call.body = WhilePrefix \o <<"\n">> \o <<"{", "}">>
  /\ call.result = "value" /\ call.value = <<"{", "}">>

\* C20: a request at a route that reads the credentials, and that read no
\* client_id or no client_secret, is answered 500; its handler is not
\* called, so that it makes no call to the provider and no write to the
\* token store.
C20_NoCredentialsIs500 ==
  \A r \in Req :
    ( /\ route[r].kind \in CredentialRoutes
      /\ route[r].idDone /\ route[r].secretDone
      /\ ~Truthy(route[r].clientId) \/ ~Truthy(route[r].clientSecret) )
    => /\ route[r].pc = "done"
       /\ route[r].status = 500
       /\ ~route[r].delegated
       /\ route[r].calls = 0
       /\ route[r].writes = 0

C20_Witness ==
  \E r \in Req :
    /\ route[r].kind = "callback" /\ route[r].pc = "done"
    /\ Truthy(route[r].clientId) /\ ~Truthy(route[r].clientSecret)
    /\ route[r].status = 500

\* C21: no request ends with an error that left the function of its route:
\* every failure is caught there and answered by it.
C21_NoErrorEscapes ==
  \A r \in Req : route[r].pc = "done" => ~route[r].escaped

\* C22: when the POST that asks for the generation is answered with an
\* error (or not at all), getAssetPreview has ended with an error and the
\* POST is the last of its calls: no wait, probe or fetch follows it.
C22_TriggerFailureEnds ==
  preview.generateResponse \notin {"none", "ok"} =>
    /\ preview.pc = "done" /\ preview.result = "error"
    /\ preview.calls = <<"get", "trigger">>

C22_Witness ==
  /\ preview.generateResponse = "error"
  /\ preview.pc = "done"
  /\ preview.error = "failed_to_request_generation"

\* C23: a check of the status during the polling that is answered with an
\* error other than a 404 (or that fails) ends getAssetPreview with an
\* error; it is not taken for "not ready" and no wait follows it.
C23_ProbeErrorEnds ==
  preview.statusResponse \in {"error", "rejected"} =>
    /\ preview.pc = "done" /\ preview.result = "error"
    /\ preview.calls[Len(preview.calls)] = "status"

\* C24: when the check of the status says that the rendition is ready,
\* getAssetPreview does not end with an error or with the processing
\* result: it ends with the image.
C24_ReadyGivesImage ==
  (preview.statusResponse = "ready" /\ preview.pc = "done")
  => preview.result = "image"

\* The iterations of the polling loop that a call has begun: each begins
\* with the GET of the rendition.
Iterations == Cardinality({i \in DOMAIN preview.calls : preview.calls[i] = "get"})

\* C25: when every upstream call and every wait returns, a call of
\* getAssetPreview ends, with an image, an error or the processing result,
\* and it never begins more than 8 iterations of the polling loop.
C25_Terminates ==
  /\ [](Iterations <= MaxRetries)
  /\ <>(preview.pc = "done" /\
        preview.result \in {"image", "error", "processing"})

C25_Witness ==
  /\ preview.pc = "done"
  /\ Iterations = MaxRetries
  /\ preview.attempt = MaxRetries

\* C26: a step that changes the token store is a put of a callback or of a
\* getAccessToken whose call to the token endpoint succeeded, or a delete
\* of clearAccessToken; and a getAccessToken whose refresh failed has
\* written nothing to the store.
C26_StoreMutatedOnSuccessOnly ==
  [][ /\ tokens' # tokens =>
           \E r \in Req :
             /\ req'[r].writes = req[r].writes + 1
             /\ \/ req'[r].op = "clear"
                \/ /\ req[r].op \in {"callback", "resource"}
                   /\ req[r].outcome = "ok"
      /\ \A r \in Req :
           ( /\ req'[r].op = "resource"
             /\ req'[r].outcome \in FetchOutcomes \ {"ok"} )
           => req'[r].writes = 0
    ]_vars

C26_Witness ==
  \E r \in Req :
    /\ GotToken(r) /\ req[r].outcome = "http_error"
    /\ req[r].writes = 0
    /\ RecordOf(0)
    /\ \A x \in Req \ {r} : req[x].pc = "idle"

\* C27: when the requests that run are resource requests, whose
\* getAccessToken may refresh at the same time, the access token that a
\* getAccessToken returns without a refresh and the expiry that it compared
\* come from the same token record.
C27_TokenAndExpiryOfOneRecord ==
  (\A x \in Req : req[x].op \in {"none", "resource"}) =>
    \A r \in Req :
      (GotToken(r) /\ req[r].calls = 0 /\ Truthy(req[r].token))
      => req[r].rdExpiry.src = req[r].token.src

\* C28: once a clearAccessToken and a getAccessToken that refreshed have
\* both finished, and nothing else has run, the store holds no token
\* field, whatever the order of their steps was.
C28_ClearOutlastsRefresh ==
  \A c, r \in Req :
    ( /\ req[c].op = "clear" /\ req[c].pc = "done"
      /\ GotToken(r) /\ req[r].outcome = "ok"
      /\ \A x \in Req \ {c, r} : req[x].pc = "idle" )
    => \A k \in Keys : ~Truthy(tokens[k])

\* C29: the client_id and the client_secret that a request has read, and
\* those in the store when no credential update is in progress, were sent
\* by the same update.
C29_CredentialPairOfOneUpdate ==
  /\ \A r \in Req :
       ( /\ route[r].kind \in CredentialRoutes
         /\ route[r].idDone /\ route[r].secretDone
         /\ Truthy(route[r].clientId) /\ Truthy(route[r].clientSecret) )
       => route[r].clientId.src = route[r].clientSecret.src
  /\ ( /\ \A r \in Req : route[r].pc \in {"idle", "done"}
       /\ \A k \in CredentialKeys : Truthy(credentials[k]) )
     => credentials["client_id"].src = credentials["client_secret"].src

\* C30: two callbacks that differ in their state value only give the same
\* response and make the same puts to the token store, also when the state
\* of one of them was never handed out by handleOAuthStart; and
\* handleOAuthStart stores nothing: before its callback runs, a store is as
\* it was.
C30_StateIgnored ==
  /\ \A w \in {1, 2} :
       pair.run[w].pc = "idle" =>
         pair.run[w].store = pair.store0 /\ pair.run[w].writes = <<>>
  /\ (pair.run[1].pc = "done" /\ pair.run[2].pc = "done") =>
       /\ pair.run[1].status = pair.run[2].status
       /\ pair.run[1].body = pair.run[2].body
       /\ pair.run[1].writes = pair.run[2].writes
       /\ pair.run[1].store = pair.run[2].store

C30_Witness ==
  /\ pair.run[1].pc = "done" /\ pair.run[2].pc = "done"
  /\ pair.run[1].state \in pair.issued
  /\ pair.run[2].state \notin pair.issued
  /\ pair.run[1].status = 200 /\ pair.run[2].status = 200
  /\ Len(pair.run[2].writes) = 3

====
